---------------------------- MODULE Spec2Model ----------------------------
(* Verification model of the write-coordination core of gitness:          *)
(*   - WebhookStore (internal/store/database/webhook.go): the versioned   *)
(*     entity store with its optimistic-locking Update;                   *)
(*   - Controller.MergeCheck (internal/api/controller/repo/merge_check.go)*)
(*   - the trigger list encoding (triggersToString / triggersFromString). *)
(* Go strings are modelled as sequences of one-character strings, so that *)
(* strings.Join and strings.Split are computed, not assumed.              *)
EXTENDS Integers, Sequences, FiniteSets, TLC

(***************************************************************************)
(* Bounds of the model                                                     *)
(***************************************************************************)
NumWriters == 2
MaxID == 1
MaxVersion == 2
MaxTime == 1
MaxNameLen == 2
MaxTrigLen == 2
MaxRows == 5
MaxPageSize == 3
MaxParentID == 2
MaxCorruptRows == 3

Writers == 1..NumWriters
IDs == 1..MaxID
Times == 0..MaxTime

(***************************************************************************)
(* Strings and the trigger encoding                                        *)
(***************************************************************************)
\* const triggersSeparator = ","
triggersSeparator == ","

\* The characters strings are made of in the model.
Alphabet == {"a", "b", triggersSeparator}

\* All strings of at most n characters.
StringsUpTo(n) == UNION {[1..k -> Alphabet] : k \in 0..n}

\* All sequences of at most n elements of S.
SeqsUpTo(S, n) == UNION {[1..k -> S] : k \in 0..n}

\* strings.Join(elems, sep)
RECURSIVE Join(_, _)
Join(elems, sep) ==
    IF Len(elems) = 0 THEN <<>>
    ELSE IF Len(elems) = 1 THEN elems[1]
    ELSE elems[1] \o <<sep>> \o Join(Tail(elems), sep)

\* Index of the first occurrence of the character sep in s, 0 if none.
IndexOf(s, sep) ==
    IF \E i \in 1..Len(s) : s[i] = sep
    THEN CHOOSE i \in 1..Len(s) :
            s[i] = sep /\ \A j \in 1..(i - 1) : s[j] # sep
    ELSE 0

\* strings.Split(s, sep) for a one-character separator: always returns
\* (number of separators + 1) pieces, so Split("") is [""].
RECURSIVE Split(_, _)
Split(s, sep) ==
    LET i == IndexOf(s, sep)
    IN  IF i = 0 THEN <<s>>
        ELSE <<SubSeq(s, 1, i - 1)>> \o Split(SubSeq(s, i + 1, Len(s)), sep)

\* Variant of triggersFromString that lacks the empty-string case.
triggersFromStringNoEmptyCase(triggersString) ==
    Split(triggersString, triggersSeparator)

triggersFromString(triggersString) ==
    IF triggersString = <<>> THEN <<>>
    ELSE Split(triggersString, triggersSeparator)

triggersToString(triggers) == Join(triggers, triggersSeparator)

(***************************************************************************)
(* The entity and its stored row                                           *)
(***************************************************************************)
\* Version of a freshly inserted row: the INSERT of Create names no
\* webhook_version column, the column default applies.
InitialVersion == 0

\* enum.WebhookParent
WebhookParentRepo == "repo"
WebhookParentSpace == "space"

\* null.Int: the zero value and null.IntFrom
NullInt == [Valid |-> FALSE, Int64 |-> 0]
IntFrom(i) == [Valid |-> TRUE, Int64 |-> i]

\* store.ErrConflict and the classes of the other errors the store returns
NoError == "nil"
ErrConflict == "Conflict"
ErrNotFound == "NotFound"
ErrStore == "StoreError"
ErrUnsupportedParent == "UnsupportedParent"
ErrCorrupt == "CorruptRow"

\* the zero values of *types.Webhook and *webhook returned next to an error
NoHook == [ID |-> 0]
NoRow == [ID |-> 0]

\* mapToWebhook: stored row -> entity, rejecting rows with both or neither
\* parent set.
mapToWebhook(hook) ==
    LET res == [ID |-> hook.ID, Version |-> hook.Version,
                CreatedBy |-> hook.CreatedBy, Created |-> hook.Created,
                Updated |-> hook.Updated, URL |-> hook.URL,
                Secret |-> hook.Secret, Enabled |-> hook.Enabled,
                Insecure |-> hook.Insecure,
                Triggers |-> triggersFromString(hook.Triggers)]
    IN  IF hook.RepoID.Valid /\ hook.SpaceID.Valid
        THEN [err |-> ErrCorrupt, hook |-> NoHook]
        ELSE IF hook.RepoID.Valid
        THEN [err |-> NoError,
              hook |-> res @@ [ParentType |-> WebhookParentRepo,
                               ParentID |-> hook.RepoID.Int64]]
        ELSE IF hook.SpaceID.Valid
        THEN [err |-> NoError,
              hook |-> res @@ [ParentType |-> WebhookParentSpace,
                               ParentID |-> hook.SpaceID.Int64]]
        ELSE [err |-> ErrCorrupt, hook |-> NoHook]

\* Variant of mapToInternalWebhook whose switch has no default case: every
\* parent type but repo is taken for a space.
mapToInternalWebhookNoDefault(hook) ==
    LET res == [ID |-> hook.ID, Version |-> hook.Version,
                CreatedBy |-> hook.CreatedBy, Created |-> hook.Created,
                Updated |-> hook.Updated, URL |-> hook.URL,
                Secret |-> hook.Secret, Enabled |-> hook.Enabled,
                Insecure |-> hook.Insecure,
                Triggers |-> triggersToString(hook.Triggers)]
    IN  IF hook.ParentType = WebhookParentRepo
        THEN [err |-> NoError,
              row |-> res @@ [RepoID |-> IntFrom(hook.ParentID),
                              SpaceID |-> NullInt]]
        ELSE [err |-> NoError,
              row |-> res @@ [RepoID |-> NullInt,
                              SpaceID |-> IntFrom(hook.ParentID)]]

\* mapToInternalWebhook: entity -> row, rejecting unknown parent types.
mapToInternalWebhook(hook) ==
    LET res == [ID |-> hook.ID, Version |-> hook.Version,
                CreatedBy |-> hook.CreatedBy, Created |-> hook.Created,
                Updated |-> hook.Updated, URL |-> hook.URL,
                Secret |-> hook.Secret, Enabled |-> hook.Enabled,
                Insecure |-> hook.Insecure,
                Triggers |-> triggersToString(hook.Triggers)]
    IN  IF hook.ParentType = WebhookParentRepo
        THEN [err |-> NoError,
              row |-> res @@ [RepoID |-> IntFrom(hook.ParentID),
                              SpaceID |-> NullInt]]
        ELSE IF hook.ParentType = WebhookParentSpace
        THEN [err |-> NoError,
              row |-> res @@ [RepoID |-> NullInt,
                              SpaceID |-> IntFrom(hook.ParentID)]]
        ELSE [err |-> ErrUnsupportedParent, row |-> NoRow]

\* The payload columns of a row, the ones Update's SET clause writes besides
\* webhook_version and webhook_updated.
PayloadOf(r) == [URL |-> r.URL, Secret |-> r.Secret, Enabled |-> r.Enabled,
                 Insecure |-> r.Insecure, Triggers |-> r.Triggers]

\* Payloads callers put into an entity (valid trigger names only).
Payloads ==
    { [URL |-> "u1", Secret |-> "s1", Enabled |-> TRUE, Insecure |-> FALSE,
       Triggers |-> <<>>],
      [URL |-> "u2", Secret |-> "s2", Enabled |-> FALSE, Insecure |-> TRUE,
       Triggers |-> << <<"a">>, <<"b", "a">> >>] }

WithPayload(hook, p) ==
    [hook EXCEPT !.URL = p.URL, !.Secret = p.Secret, !.Enabled = p.Enabled,
                 !.Insecure = p.Insecure, !.Triggers = p.Triggers]

(***************************************************************************)
(* State                                                                   *)
(***************************************************************************)
VARIABLES
    webhooks,   \* the webhooks table: webhook_id -> row, for the rows present
    nextID,     \* the next webhook_id the table assigns (RETURNING webhook_id)
    now,        \* the clock read by time.Now().UnixMilli()
    pc,         \* per writer: "idle", "fetched", "updating"
    hook,       \* per writer: the caller's *types.Webhook
    dbHook,     \* per writer: Update's dbHook between its preparation and the write
    seen,       \* per writer: the stored row it last observed (read by its
                \* Find, or written by its own successful Update)
    res,        \* per writer: what its last store call returned
    ret         \* what the last Create or Delete returned: the error, the
                \* id concerned and, for Create, the caller's entity as the
                \* call left it

storeVars == <<webhooks, nextID, now, pc, hook, dbHook, seen, res, ret>>

VARIABLES
    mpc,         \* MergeCheck: the position of the request in the handler
    req,         \* MergeCheck: the arguments session, repoRef, diffPath
    repo,        \* MergeCheck: the local repo
    info,        \* MergeCheck: the local info
    writeParams, \* MergeCheck: the local writeParams
    calls,       \* MergeCheck: the collaborator calls the request made so far
    mret         \* MergeCheck: what the handler returned

mergeVars == <<mpc, req, repo, info, writeParams, calls, mret>>

VARIABLES
    tpc,    \* trigger encoding: "off", "input", "encoded", "decoded"
    tin,    \* the trigger list handed to triggersToString
    tenc,   \* the string triggersToString returned
    tdec    \* the list triggersFromString returned for tenc

trigVars == <<tpc, tin, tenc, tdec>>

VARIABLES
    lpc,    \* listing: "off", "paging", "done", "failed"
    larg,   \* the parent type, parent id and page size of the listing
    lpage,  \* the page the listing asks for next
    lacc,   \* the entities of the pages returned so far, in order
    lret    \* what the last List or Count returned, with its parent
            \* arguments and the number of queries it sent to the database

listVars == <<lpc, larg, lpage, lacc, lret>>

vars == <<storeVars, mergeVars, trigVars, listVars>>


(***************************************************************************)
(* WebhookStore                                                            *)
(***************************************************************************)
NoCall == [op |-> "none", err |-> NoError]
UpdateOK == [op |-> "Update", err |-> NoError]
UpdateConflict == [op |-> "Update", err |-> ErrConflict]
NoReturnYet == [op |-> "none", err |-> NoError, id |-> 0, hook |-> NoHook]

\* The hooks callers pass to Create at time t. The entity names its parent
\* by one (ParentType, ParentID) pair; "other" is a type outside the enum,
\* the entity with no parent. Create leaves ID to the table; Version,
\* Created and Updated are what the caller filled in: the initial version
\* and the time of the call.
CreateInputs(t) ==
    { WithPayload([ID |-> 0, Version |-> v, ParentType |-> pt, ParentID |-> 1,
                   CreatedBy |-> 1, Created |-> c, Updated |-> c,
                   URL |-> "", Secret |-> "", Enabled |-> FALSE,
                   Insecure |-> FALSE, Triggers |-> <<>>], p) :
        v \in {0}, pt \in {WebhookParentRepo, WebhookParentSpace, "other"},
        c \in {t}, p \in Payloads }

StoreInit ==
    /\ webhooks = <<>>
    /\ nextID = 1
    /\ now = 0
    /\ pc = [w \in Writers |-> "idle"]
    /\ hook = [w \in Writers |-> NoHook]
    /\ dbHook = [w \in Writers |-> NoRow]
    /\ seen = [w \in Writers |-> NoRow]
    /\ res = [w \in Writers |-> NoCall]
    /\ ret = NoReturnYet

\* time passes; time.Now().UnixMilli() reads `now`
Tick ==
    /\ now < MaxTime
    /\ now' = now + 1
    /\ UNCHANGED <<webhooks, nextID, pc, hook, dbHook, seen, res, ret>>
    /\ UNCHANGED <<mergeVars, trigVars, listVars>>

\* What WebhookStore.Find(ctx, id) returns on the table tbl: the entity and
\* the error.
FindResult(tbl, id) ==
    IF id \notin DOMAIN tbl
    THEN [err |-> ErrNotFound, hook |-> NoHook]
    ELSE mapToWebhook(tbl[id])

\* WebhookStore.Find(ctx, id), called by writer w
Find(w, id) ==
    /\ pc[w] \in {"idle", "fetched"}
    /\ LET m == FindResult(webhooks, id)
       IN  IF m.err # NoError
           THEN /\ res' = [res EXCEPT ![w] = [op |-> "Find", err |-> m.err]]
                /\ UNCHANGED <<pc, hook, seen>>
           ELSE /\ res' = [res EXCEPT ![w] = [op |-> "Find", err |-> NoError]]
                /\ hook' = [hook EXCEPT ![w] = m.hook]
                /\ seen' = [seen EXCEPT ![w] = webhooks[id]]
                /\ pc' = [pc EXCEPT ![w] = "fetched"]
    /\ UNCHANGED <<webhooks, nextID, now, dbHook, ret, mergeVars, trigVars, listVars>>

\* The caller of the store changes the payload of the entity it holds.
SetPayload(w, p) ==
    /\ pc[w] = "fetched"
    /\ hook[w] # WithPayload(hook[w], p)
    /\ hook' = [hook EXCEPT ![w] = WithPayload(hook[w], p)]
    /\ UNCHANGED <<webhooks, nextID, now, pc, dbHook, seen, res, ret>>
    /\ UNCHANGED <<mergeVars, trigVars, listVars>>

\* The values a caller may put into the fields of its entity that Update
\* does not write: parent type and id, creator, creation time.
Tamperings ==
    { [ParentType |-> WebhookParentSpace, ParentID |-> 2, CreatedBy |-> 2,
       Created |-> 1],
      [ParentType |-> WebhookParentRepo, ParentID |-> 2, CreatedBy |-> 1,
       Created |-> 0],
      [ParentType |-> "other", ParentID |-> 1, CreatedBy |-> 2,
       Created |-> 0] }

\* The caller of the store changes parent, creator and creation time of the
\* entity it holds.
Tamper(w, x) ==
    /\ pc[w] = "fetched"
    /\ hook' = [hook EXCEPT ![w] =
                  [hook[w] EXCEPT !.ParentType = x.ParentType,
                                  !.ParentID = x.ParentID,
                                  !.CreatedBy = x.CreatedBy,
                                  !.Created = x.Created]]
    /\ hook' # hook
    /\ UNCHANGED <<webhooks, nextID, now, pc, dbHook, seen, res, ret>>
    /\ UNCHANGED <<mergeVars, trigVars, listVars>>

\* The row the INSERT of Create adds: the statement names neither webhook_id
\* nor webhook_version, the table assigns the id and the column default.
InsertedRow(row, id) == [row EXCEPT !.ID = id, !.Version = InitialVersion]

\* Variant of Create's Scan that leaves the caller's entity without its id.
HookAfterCreateNoID(h, id) == h

\* QueryRowContext(...).Scan(&hook.ID)
HookAfterCreate(h, id) == [h EXCEPT !.ID = id]

\* WebhookStore.Create(ctx, hook): the entity is mapped, inserted, and
\* RETURNING webhook_id is scanned into hook.ID.
Create(h) ==
    LET m == mapToInternalWebhook(h)
    IN  /\ IF m.err # NoError
           THEN /\ ret' = [op |-> "Create", err |-> m.err, id |-> 0, hook |-> h]
                /\ UNCHANGED <<webhooks, nextID>>
           ELSE /\ nextID <= MaxID
                /\ webhooks' = webhooks @@ (nextID :> InsertedRow(m.row, nextID))
                /\ nextID' = nextID + 1
                /\ ret' = [op |-> "Create", err |-> NoError, id |-> nextID,
                           hook |-> HookAfterCreate(h, nextID)]
        /\ UNCHANGED <<now, pc, hook, dbHook, seen, res, mergeVars, trigVars, listVars>>

\* Variant of the WHERE clause of Update that matches on the id alone.
UpdateMatchesIDOnly(row, d) == row.ID = d.ID

\* Variant of the WHERE clause of Update that also accepts a stored version
\* newer than the caller's.
UpdateMatchesNewer(row, d) ==
    row.ID = d.ID /\ row.Version >= d.Version - 1

\* WHERE webhook_id = :webhook_id and webhook_version = :webhook_version - 1
UpdateMatches(row, d) == row.ID = d.ID /\ row.Version = d.Version - 1

\* Variant of the SET clause of Update that leaves webhook_version out.
UpdateSetKeepVersion(row, d) ==
    [row EXCEPT !.Updated = d.Updated, !.URL = d.URL,
                !.Secret = d.Secret, !.Enabled = d.Enabled,
                !.Insecure = d.Insecure, !.Triggers = d.Triggers]

\* Variant of the SET clause of Update that writes every column of the
\* bound row.
UpdateSetAllColumns(row, d) == d

\* The SET clause of Update
UpdateSet(row, d) ==
    [row EXCEPT !.Version = d.Version, !.Updated = d.Updated, !.URL = d.URL,
                !.Secret = d.Secret, !.Enabled = d.Enabled,
                !.Insecure = d.Insecure, !.Triggers = d.Triggers]

\* dbHook.Version++ ; dbHook.Updated = time.Now().UnixMilli()
PreparedRow(row, t) ==
    [row EXCEPT !.Version = row.Version + 1, !.Updated = t]

\* Variant of Update's success path that leaves hook.Updated alone.
HookAfterUpdateVersionOnly(h, d) == [h EXCEPT !.Version = d.Version]

\* hook.Version = dbHook.Version ; hook.Updated = dbHook.Updated
HookAfterUpdate(h, d) ==
    [h EXCEPT !.Version = d.Version, !.Updated = d.Updated]

\* Variant of Update's tail that assigns to the entity before the count is
\* looked at.
HookAfterExecAssignFirst(h, d, count) == HookAfterUpdate(h, d)

\* if count == 0 { return store.ErrConflict }, then the two assignments
HookAfterExec(h, d, count) ==
    IF count = 0 THEN h ELSE HookAfterUpdate(h, d)

\* Variant of the UPDATE statement that inserts the bound row when no row
\* matches.
ApplyUpsert(tbl, d) ==
    IF \E id \in DOMAIN tbl : UpdateMatches(tbl[id], d)
    THEN [id \in DOMAIN tbl |->
            IF UpdateMatches(tbl[id], d) THEN UpdateSet(tbl[id], d) ELSE tbl[id]]
    ELSE [id \in DOMAIN tbl \cup {d.ID} |-> IF id = d.ID THEN d ELSE tbl[id]]

\* The table after the UPDATE statement ran with dbHook d bound: one
\* statement, every matching row gets the SET clause.
ApplyUpdate(tbl, d) ==
    [id \in DOMAIN tbl |->
        IF UpdateMatches(tbl[id], d) THEN UpdateSet(tbl[id], d) ELSE tbl[id]]

\* result.RowsAffected()
RowsAffected(tbl, d) ==
    Cardinality({id \in DOMAIN tbl : UpdateMatches(tbl[id], d)})

\* WebhookStore.Update(ctx, hook), up to the statement being bound: the
\* entity is mapped, its version incremented and its Updated time stamped.
UpdatePrepare(w) ==
    /\ pc[w] = "fetched"
    /\ hook[w].Version < MaxVersion
    /\ LET m == mapToInternalWebhook(hook[w])
       IN  IF m.err # NoError
           THEN /\ res' = [res EXCEPT ![w] = [op |-> "Update", err |-> m.err]]
                /\ UNCHANGED <<pc, dbHook>>
           ELSE /\ dbHook' = [dbHook EXCEPT ![w] = PreparedRow(m.row, now)]
                /\ pc' = [pc EXCEPT ![w] = "updating"]
                /\ UNCHANGED res
    /\ UNCHANGED <<webhooks, nextID, now, hook, seen, ret, mergeVars, trigVars, listVars>>

\* WebhookStore.Update(ctx, hook), from ExecContext on: one conditional
\* UPDATE statement, then the RowsAffected check.
UpdateExec(w, fail) ==
    /\ pc[w] = "updating"
    /\ pc' = [pc EXCEPT ![w] = "fetched"]
    /\ dbHook' = [dbHook EXCEPT ![w] = NoRow]
    /\ LET d == dbHook[w]
           count == RowsAffected(webhooks, d)
       IN  IF fail
           THEN /\ res' = [res EXCEPT ![w] = [op |-> "Update", err |-> ErrStore]]
                /\ UNCHANGED <<webhooks, hook, seen>>
           ELSE /\ webhooks' = ApplyUpdate(webhooks, d)
                /\ hook' = [hook EXCEPT ![w] = HookAfterExec(hook[w], d, count)]
                /\ IF count = 0
                   THEN /\ res' = [res EXCEPT ![w] =
                                     [op |-> "Update", err |-> ErrConflict]]
                        /\ UNCHANGED seen
                   ELSE /\ res' = [res EXCEPT ![w] =
                                     [op |-> "Update", err |-> NoError]]
                        /\ seen' = [seen EXCEPT ![w] = webhooks'[d.ID]]
    /\ UNCHANGED <<nextID, now, ret, mergeVars, trigVars, listVars>>

\* Variant of the WHERE clause of Delete that spares updated rows.
DeleteMatchesInitialVersion(row, id) ==
    row.ID = id /\ row.Version = InitialVersion

\* WHERE webhook_id = $1
DeleteMatches(row, id) == row.ID = id

\* WebhookStore.Delete(ctx, id): DELETE FROM webhooks WHERE webhook_id = $1;
\* the number of rows deleted is not looked at.
Delete(id) ==
    /\ webhooks' = [i \in {j \in DOMAIN webhooks :
                              ~DeleteMatches(webhooks[j], id)} |-> webhooks[i]]
    /\ ret' = [op |-> "Delete", err |-> NoError, id |-> id, hook |-> NoHook]
    /\ UNCHANGED <<nextID, now, pc, hook, dbHook, seen, res, mergeVars, trigVars, listVars>>

(***************************************************************************)
(* Controller.MergeCheck                                                   *)
(***************************************************************************)
\* Sessions, repository references and diff paths requests come with.
Sessions == {"alice", "bob", "anonymous"}
RepoRefs == {"space/r1", "space/r2", "space/none"}
DiffPaths == { <<"main", "...", "feature">>, <<"feature", "...", "main">>,
               <<"main">>, <<"main", "..", "feature">> }

NoRepo == [ID |-> 0, GitUID |-> ""]
NoInfo == [BaseRef |-> "", HeadRef |-> ""]
NoWriteParams == [RepoUID |-> "", Actor |-> ""]
NoRequest == [session |-> "", repoRef |-> "", diffPath |-> <<>>]
NoReturn == [err |-> "pending", body |-> <<>>]

\* c.repoStore.FindByRef: the repositories that exist
FindByRef(ref) ==
    IF ref = "space/r1" THEN [err |-> NoError, repo |-> [ID |-> 1, GitUID |-> "uid-1"]]
    ELSE IF ref = "space/r2" THEN [err |-> NoError, repo |-> [ID |-> 2, GitUID |-> "uid-2"]]
    ELSE [err |-> ErrNotFound, repo |-> NoRepo]

\* The permission enum.PermissionRepoView as the authorizer grants it.
HasRepoView(session, r) ==
    <<session, r.ID>> \in {<<"alice", 1>>, <<"alice", 2>>, <<"bob", 1>>}

\* apiauth.CheckRepo(ctx, authorizer, session, repo, PermissionRepoView, false)
CheckRepo(session, r) ==
    IF session = "anonymous" THEN "NotAuthenticated"
    ELSE IF HasRepoView(session, r) THEN NoError
    ELSE "Forbidden"

\* parseDiffPath: {baseRef}...{headRef}
parseDiffPath(path) ==
    IF Len(path) = 3 /\ path[2] = "..."
    THEN [err |-> NoError, info |-> [BaseRef |-> path[1], HeadRef |-> path[3]]]
    ELSE [err |-> "MalformedRequest", info |-> NoInfo]

\* CreateRPCWriteParams(ctx, urlProvider, session, repo) when it succeeds
CreateRPCWriteParams(session, r) == [RepoUID |-> r.GitUID, Actor |-> session]

\* What gitRPCClient.Merge may return: nil, or one of its errors.
MergeErrors == {NoError, "Conflict", "BranchNotFound", "NothingToMerge",
                "Unavailable"}

\* Variant of the merge parameters that takes the head repository from the
\* head ref.
MergeParamsHeadFromRef(wp, i) ==
    [WriteParams |-> wp, BaseBranch |-> i.BaseRef, HeadRepoUID |-> i.HeadRef,
     HeadBranch |-> i.HeadRef]

\* &gitrpc.MergeParams{...} as MergeCheck fills it
MergeParams(wp, i) ==
    [WriteParams |-> wp, BaseBranch |-> i.BaseRef, HeadRepoUID |-> wp.RepoUID,
     HeadBranch |-> i.HeadRef]

\* Variant of the access check whose failure is not returned.
AfterCheckRepoIgnored(err) == "parse"

\* if err = apiauth.CheckRepo(...); err != nil { return ... }
AfterCheckRepo(err) == IF err # NoError THEN "done" ELSE "parse"

\* Variant of the diff path parsing whose failure is not returned.
AfterParseIgnored(err) == "assemble"

\* info, err := parseDiffPath(diffPath); if err != nil { return err }
AfterParse(err) == IF err # NoError THEN "done" ELSE "assemble"

MergeIdle ==
    /\ mpc = "idle"
    /\ req = NoRequest
    /\ repo = NoRepo
    /\ info = NoInfo
    /\ writeParams = NoWriteParams
    /\ calls = <<>>
    /\ mret = NoReturn

\* A request arrives: MergeCheck(ctx, session, repoRef, diffPath) is entered.
MergeCheckCall(session, repoRef, diffPath) ==
    /\ mpc \in {"idle", "done"}
    /\ mpc' = "resolve"
    /\ req' = [session |-> session, repoRef |-> repoRef, diffPath |-> diffPath]
    /\ repo' = NoRepo
    /\ info' = NoInfo
    /\ writeParams' = NoWriteParams
    /\ calls' = <<>>
    /\ mret' = NoReturn
    /\ UNCHANGED <<storeVars, trigVars, listVars>>

\* repo, err := c.repoStore.FindByRef(ctx, repoRef)
Resolve ==
    /\ mpc = "resolve"
    /\ LET r == FindByRef(req.repoRef)
       IN  /\ calls' = Append(calls, [fn |-> "FindByRef", err |-> r.err,
                                      arg |-> req.repoRef])
           /\ repo' = r.repo
           /\ IF r.err # NoError
              THEN mpc' = "done" /\ mret' = [err |-> r.err, body |-> <<>>]
              ELSE mpc' = "authorize" /\ UNCHANGED mret
    /\ UNCHANGED <<req, info, writeParams, storeVars, trigVars, listVars>>

\* apiauth.CheckRepo(..., enum.PermissionRepoView, false)
Authorize ==
    /\ mpc = "authorize"
    /\ LET err == CheckRepo(req.session, repo)
       IN  /\ calls' = Append(calls, [fn |-> "CheckRepo", err |-> err,
                                      arg |-> <<req.session, repo.ID>>])
           /\ mpc' = AfterCheckRepo(err)
           /\ IF mpc' = "done"
              THEN mret' = [err |-> err, body |-> <<>>]
              ELSE UNCHANGED mret
    /\ UNCHANGED <<req, repo, info, writeParams, storeVars, trigVars, listVars>>

\* info, err := parseDiffPath(diffPath)
Parse ==
    /\ mpc = "parse"
    /\ LET r == parseDiffPath(req.diffPath)
       IN  /\ calls' = Append(calls, [fn |-> "parseDiffPath", err |-> r.err,
                                      arg |-> req.diffPath])
           /\ info' = r.info
           /\ mpc' = AfterParse(r.err)
           /\ IF mpc' = "done"
              THEN mret' = [err |-> r.err, body |-> <<>>]
              ELSE UNCHANGED mret
    /\ UNCHANGED <<req, repo, writeParams, storeVars, trigVars, listVars>>

\* writeParams, err := CreateRPCWriteParams(ctx, c.urlProvider, session, repo)
Assemble(fail) ==
    /\ mpc = "assemble"
    /\ calls' = Append(calls, [fn |-> "CreateRPCWriteParams",
                               err |-> IF fail THEN "InternalError" ELSE NoError,
                               arg |-> <<req.session, repo.ID>>])
    /\ IF fail
       THEN /\ mpc' = "done"
            /\ mret' = [err |-> "InternalError", body |-> <<>>]
            /\ UNCHANGED writeParams
       ELSE /\ mpc' = "execute"
            /\ writeParams' = CreateRPCWriteParams(req.session, repo)
            /\ UNCHANGED mret
    /\ UNCHANGED <<req, repo, info, storeVars, trigVars, listVars>>

\* _, err = c.gitRPCClient.Merge(ctx, &gitrpc.MergeParams{...}) and the
\* return of the handler: the merge error wrapped, or nil.
Execute(err) ==
    /\ mpc = "execute"
    /\ calls' = Append(calls, [fn |-> "Merge", err |-> err,
                               arg |-> MergeParams(writeParams, info)])
    /\ mpc' = "done"
    /\ mret' = [err |-> err, body |-> <<>>]
    /\ UNCHANGED <<req, repo, info, writeParams, storeVars, trigVars, listVars>>

(***************************************************************************)
(* Encoding and decoding a trigger list                                    *)
(***************************************************************************)
TrigOff == tpc = "off" /\ tin = <<>> /\ tenc = <<>> /\ tdec = <<>>

\* Every list of at most MaxTrigLen names of at most MaxNameLen characters,
\* the empty name and names holding the separator included.
TrigInputs ==
    /\ tpc = "input"
    /\ tin \in SeqsUpTo(StringsUpTo(MaxNameLen), MaxTrigLen)
    /\ tenc = <<>>
    /\ tdec = <<>>

\* mapToInternalWebhook: Triggers: triggersToString(hook.Triggers)
Encode ==
    /\ tpc = "input"
    /\ tenc' = triggersToString(tin)
    /\ tpc' = "encoded"
    /\ UNCHANGED <<tin, tdec, storeVars, mergeVars, listVars>>

\* mapToWebhook: Triggers: triggersFromString(hook.Triggers)
Decode ==
    /\ tpc = "encoded"
    /\ tdec' = triggersFromString(tenc)
    /\ tpc' = "decoded"
    /\ UNCHANGED <<tin, tenc, storeVars, mergeVars, listVars>>

(***************************************************************************)
(* List and Count                                                          *)
(***************************************************************************)
NoList == [parentType |-> "", parentID |-> 0, size |-> 0]
NoListReturn == [op |-> "none", parentType |-> "", parentID |-> 0,
                 err |-> NoError, hooks |-> <<>>, count |-> 0, queries |-> 0]

ListOff ==
    /\ lpc = "off"
    /\ larg = NoList
    /\ lpage = 0
    /\ lacc = <<>>
    /\ lret = NoListReturn

\* limit(size) and offset(page, size) of the database package: pages are
\* numbered from 1.
limit(size) == size
offset(page, size) == (page - 1) * size

\* Variant of the switch on parentType that has no default case.
ParentSupportedAny(parentType) == TRUE

\* switch parentType: the cases repo and space; default returns the error
ParentSupported(parentType) ==
    parentType \in {WebhookParentRepo, WebhookParentSpace}

\* Variant of the WHERE clause that ignores the parent id.
ParentMatchesTypeOnly(row, parentType, parentID) ==
    IF parentType = WebhookParentRepo
    THEN row.RepoID.Valid
    ELSE row.SpaceID.Valid

\* Where("webhook_repo_id = ?", parentID) / Where("webhook_space_id = ?",
\* parentID): a null column equals nothing.
ParentMatches(row, parentType, parentID) ==
    IF parentType = WebhookParentRepo
    THEN row.RepoID = IntFrom(parentID)
    ELSE row.SpaceID = IntFrom(parentID)

\* OrderBy("webhook_id ASC"), on a set of ids
RECURSIVE OrderByIDAsc(_)
OrderByIDAsc(S) ==
    IF S = {} THEN <<>>
    ELSE LET m == CHOOSE x \in S : \A y \in S : x <= y
         IN  <<m>> \o OrderByIDAsc(S \ {m})

\* LIMIT lim OFFSET off of the ordered rows q
LimitOffset(q, lim, off) ==
    LET to == IF off + lim < Len(q) THEN off + lim ELSE Len(q)
    IN  SubSeq(q, off + 1, to)

\* Variant of mapToWebhooks that leaves out the rows it cannot map.
mapToWebhooksSkipBad(hooks) ==
    LET good == SelectSeq(hooks, LAMBDA r : mapToWebhook(r).err = NoError)
    IN  [err |-> NoError,
         hooks |-> [i \in 1..Len(good) |-> mapToWebhook(good[i]).hook]]

\* mapToWebhooks: the first row that cannot be mapped fails the whole list.
mapToWebhooks(hooks) ==
    LET bad == {i \in 1..Len(hooks) : mapToWebhook(hooks[i]).err # NoError}
    IN  IF bad # {}
        THEN [err |-> mapToWebhook(hooks[CHOOSE i \in bad :
                                            \A j \in bad : i <= j]).err,
              hooks |-> <<>>]
        ELSE [err |-> NoError,
              hooks |-> [i \in 1..Len(hooks) |-> mapToWebhook(hooks[i]).hook]]

\* What WebhookStore.List(ctx, parentType, parentID, opts) returns on the
\* table tbl for opts.Page = page and opts.Size = size, and the number of
\* queries it sends.
ListResult(tbl, parentType, parentID, page, size) ==
    IF ~ParentSupported(parentType)
    THEN [err |-> ErrUnsupportedParent, hooks |-> <<>>, queries |-> 0]
    ELSE LET ids == OrderByIDAsc({id \in DOMAIN tbl :
                        ParentMatches(tbl[id], parentType, parentID)})
             cut == LimitOffset(ids, limit(size), offset(page, size))
             dst == [i \in 1..Len(cut) |-> tbl[cut[i]]]
             m   == mapToWebhooks(dst)
         IN  [err |-> m.err, hooks |-> m.hooks, queries |-> 1]

\* What WebhookStore.Count(ctx, parentType, parentID, opts) returns on the
\* table tbl, and the number of queries it sends.
CountResult(tbl, parentType, parentID) ==
    IF ~ParentSupported(parentType)
    THEN [err |-> ErrUnsupportedParent, count |-> 0, queries |-> 0]
    ELSE [err |-> NoError,
          count |-> Cardinality({id \in DOMAIN tbl :
                        ParentMatches(tbl[id], parentType, parentID)}),
          queries |-> 1]

\* The parent types and ids callers list and count by.
ParentTypes == {WebhookParentRepo, WebhookParentSpace, "other"}
ParentIDs == 1..MaxParentID

\* A caller starts listing the webhooks of a parent, size entities a page.
ListStart(parentType, parentID, size) ==
    /\ lpc # "paging"
    /\ lpc' = "paging"
    /\ larg' = [parentType |-> parentType, parentID |-> parentID,
                size |-> size]
    /\ lpage' = 1
    /\ lacc' = <<>>
    /\ lret' = NoListReturn
    /\ UNCHANGED <<storeVars, mergeVars, trigVars>>

\* WebhookStore.List for the next page of the listing; the caller stops at
\* an error and at a page shorter than the page size.
ListPage ==
    /\ lpc = "paging"
    /\ LET r == ListResult(webhooks, larg.parentType, larg.parentID, lpage,
                           larg.size)
       IN  /\ lret' = [op |-> "List", parentType |-> larg.parentType,
                        parentID |-> larg.parentID, err |-> r.err,
                        hooks |-> r.hooks, count |-> 0, queries |-> r.queries]
           /\ IF r.err # NoError
              THEN lpc' = "failed" /\ UNCHANGED <<lpage, lacc>>
              ELSE /\ lacc' = lacc \o r.hooks
                   /\ IF Len(r.hooks) < larg.size
                      THEN lpc' = "done" /\ UNCHANGED lpage
                      ELSE lpc' = "paging" /\ lpage' = lpage + 1
    /\ UNCHANGED <<larg, storeVars, mergeVars, trigVars>>

\* WebhookStore.Count, called between listings
Count(parentType, parentID) ==
    /\ lpc # "paging"
    /\ LET r == CountResult(webhooks, parentType, parentID)
       IN  lret' = [op |-> "Count", parentType |-> parentType,
                    parentID |-> parentID, err |-> r.err, hooks |-> <<>>,
                    count |-> r.count, queries |-> r.queries]
    /\ lpc' = "off"
    /\ larg' = NoList
    /\ lpage' = 0
    /\ lacc' = <<>>
    /\ UNCHANGED <<storeVars, mergeVars, trigVars>>

(***************************************************************************)
(* Specifications                                                          *)
(***************************************************************************)
\* The store under writers that fetch, modify and update, with Create and
\* Delete interleaved.
Init == StoreInit /\ MergeIdle /\ TrigOff /\ ListOff

Next ==
    \/ Tick
    \/ \E w \in Writers, id \in IDs : Find(w, id)
    \/ \E w \in Writers, p \in Payloads : SetPayload(w, p)
    \/ \E h \in CreateInputs(now) : Create(h)
    \/ \E w \in Writers : UpdatePrepare(w)
    \/ \E w \in Writers, fail \in BOOLEAN : UpdateExec(w, fail)
    \/ \E id \in IDs : Delete(id)

Spec == Init /\ [][Next]_vars

\* The race: one row at some version, every writer holds the entity it
\* fetched at that version and calls Update once.
RaceRows ==
    { [ID |-> 1, Version |-> v, RepoID |-> IntFrom(1), SpaceID |-> NullInt,
       CreatedBy |-> 1, Created |-> 0, Updated |-> 0, URL |-> p.URL,
       Secret |-> p.Secret, Enabled |-> p.Enabled, Insecure |-> p.Insecure,
       Triggers |-> triggersToString(p.Triggers)] :
        v \in InitialVersion..(MaxVersion - 1), p \in Payloads }

RaceInit ==
    /\ \E r \in RaceRows :
          /\ webhooks = (1 :> r)
          /\ hook = [w \in Writers |-> mapToWebhook(r).hook]
          /\ seen = [w \in Writers |-> r]
    /\ nextID = 2
    /\ now = 0
    /\ pc = [w \in Writers |-> "fetched"]
    /\ dbHook = [w \in Writers |-> NoRow]
    /\ res = [w \in Writers |-> [op |-> "Find", err |-> NoError]]
    /\ ret = NoReturnYet
    /\ MergeIdle
    /\ TrigOff
    /\ ListOff

RaceNext ==
    \/ Tick
    \/ \E w \in Writers, p \in Payloads : res[w].op = "Find" /\ SetPayload(w, p)
    \/ \E w \in Writers : res[w].op = "Find" /\ UpdatePrepare(w)
    \/ \E w \in Writers, fail \in BOOLEAN : UpdateExec(w, fail)

SpecRace == RaceInit /\ [][RaceNext]_vars

\* MergeCheck requests, one after the other.
MergeNext ==
    \/ \E s \in Sessions, r \in RepoRefs, d \in DiffPaths : MergeCheckCall(s, r, d)
    \/ Resolve
    \/ Authorize
    \/ Parse
    \/ \E fail \in BOOLEAN : Assemble(fail)
    \/ \E err \in MergeErrors : Execute(err)

SpecMerge == Init /\ [][MergeNext]_vars

\* A trigger list is encoded, then decoded.
TrigNext == Encode \/ Decode

InitTrig == StoreInit /\ MergeIdle /\ TrigInputs /\ ListOff

SpecTrig == InitTrig /\ [][TrigNext]_vars

\* Create, Update and Delete with callers that also rewrite the fields of
\* their entity that Update is not to store.
TamperNext ==
    \/ \E h \in CreateInputs(now) : Create(h)
    \/ \E w \in Writers, id \in IDs : Find(w, id)
    \/ \E w \in Writers, x \in Tamperings : Tamper(w, x)
    \/ \E w \in Writers : UpdatePrepare(w)
    \/ \E w \in Writers : UpdateExec(w, FALSE)
    \/ \E id \in IDs : Delete(id)

SpecTamper == Init /\ [][TamperNext]_vars

\* The retry loop: one entity that is never deleted, and every writer
\* fetches it, modifies what it fetched, calls Update, and fetches again
\* when Update returns Conflict, until its one update has succeeded.
InitRetry ==
    /\ \E r \in RaceRows :
          /\ r.Version = InitialVersion
          /\ webhooks = (1 :> r)
    /\ nextID = 2
    /\ now = 0
    /\ pc = [w \in Writers |-> "idle"]
    /\ hook = [w \in Writers |-> NoHook]
    /\ dbHook = [w \in Writers |-> NoRow]
    /\ seen = [w \in Writers |-> NoRow]
    /\ res = [w \in Writers |-> NoCall]
    /\ ret = NoReturnYet
    /\ MergeIdle
    /\ TrigOff
    /\ ListOff

RetryFetch(w) ==
    /\ res[w] \in {NoCall, UpdateConflict}
    /\ Find(w, 1)

RetryModify(w, p) ==
    /\ res[w] = [op |-> "Find", err |-> NoError]
    /\ hook[w] = mapToWebhook(seen[w]).hook
    /\ SetPayload(w, p)

RetryUpdate(w) ==
    /\ res[w] = [op |-> "Find", err |-> NoError]
    /\ UpdatePrepare(w)

RetryExec(w) == UpdateExec(w, FALSE)

RetryNext ==
    \/ Tick
    \/ \E w \in Writers : RetryFetch(w)
    \/ \E w \in Writers, p \in Payloads : RetryModify(w, p)
    \/ \E w \in Writers : RetryUpdate(w)
    \/ \E w \in Writers : RetryExec(w)

\* Every writer is a caller that runs on: the step its loop is at is
\* eventually taken.
RetryFairness ==
    \A w \in Writers :
        /\ WF_vars(RetryFetch(w))
        /\ WF_vars(RetryUpdate(w))
        /\ WF_vars(RetryExec(w))

SpecRetry == InitRetry /\ [][RetryNext]_vars /\ RetryFairness

\* The row Create leaves for an entity of the given parent.
RowOf(id, parentType, parentID) ==
    InsertedRow(mapToInternalWebhook(
        [ID |-> 0, Version |-> InitialVersion, ParentType |-> parentType,
         ParentID |-> parentID, CreatedBy |-> 1, Created |-> 0, Updated |-> 0,
         URL |-> "u1", Secret |-> "s1", Enabled |-> TRUE, Insecure |-> FALSE,
         Triggers |-> <<>>]).row, id)

\* Listing and counting on a table that Creates and Deletes left: of the
\* ids handed out so far some are gone, the others belong to one of three
\* parents.
ListShapes ==
    { <<"none", 0>>, <<WebhookParentRepo, 1>>, <<WebhookParentRepo, 2>>,
      <<WebhookParentSpace, 1>> }

InitList ==
    /\ \E f \in [1..MaxRows -> ListShapes] :
          webhooks = [id \in {i \in 1..MaxRows : f[i][1] # "none"} |->
                        RowOf(id, f[id][1], f[id][2])]
    /\ nextID = MaxRows + 1
    /\ now = 0
    /\ pc = [w \in Writers |-> "idle"]
    /\ hook = [w \in Writers |-> NoHook]
    /\ dbHook = [w \in Writers |-> NoRow]
    /\ seen = [w \in Writers |-> NoRow]
    /\ res = [w \in Writers |-> NoCall]
    /\ ret = NoReturnYet
    /\ MergeIdle
    /\ TrigOff
    /\ ListOff

ListNext ==
    \/ \E pt \in ParentTypes, pid \in ParentIDs, size \in 1..MaxPageSize :
          ListStart(pt, pid, size)
    \/ ListPage
    \/ \E pt \in ParentTypes, pid \in ParentIDs : Count(pt, pid)

SpecList == InitList /\ [][ListNext]_vars

\* Reading a table in which rows were written past the store: a row may
\* have both parent columns set, or neither.
CorruptShapes ==
    { [RepoID |-> NullInt, SpaceID |-> NullInt, present |-> FALSE],
      [RepoID |-> IntFrom(1), SpaceID |-> NullInt, present |-> TRUE],
      [RepoID |-> NullInt, SpaceID |-> IntFrom(1), present |-> TRUE],
      [RepoID |-> IntFrom(1), SpaceID |-> IntFrom(1), present |-> TRUE],
      [RepoID |-> NullInt, SpaceID |-> NullInt, present |-> TRUE] }

InitCorrupt ==
    /\ \E f \in [1..MaxCorruptRows -> CorruptShapes] :
          webhooks = [id \in {i \in 1..MaxCorruptRows : f[i].present} |->
                        [RowOf(id, WebhookParentRepo, 1) EXCEPT
                            !.RepoID = f[id].RepoID,
                            !.SpaceID = f[id].SpaceID]]
    /\ nextID = MaxCorruptRows + 1
    /\ now = 0
    /\ pc = [w \in Writers |-> "idle"]
    /\ hook = [w \in Writers |-> NoHook]
    /\ dbHook = [w \in Writers |-> NoRow]
    /\ seen = [w \in Writers |-> NoRow]
    /\ res = [w \in Writers |-> NoCall]
    /\ ret = NoReturnYet
    /\ MergeIdle
    /\ TrigOff
    /\ ListOff

CorruptNext ==
    \/ \E w \in Writers, id \in 1..MaxCorruptRows : Find(w, id)
    \/ \E pt \in ParentTypes, size \in 1..MaxPageSize : ListStart(pt, 1, size)
    \/ ListPage

SpecCorrupt == InitCorrupt /\ [][CorruptNext]_vars

(***************************************************************************)
(* Properties                                                              *)
(***************************************************************************)
\* Writer w's Update returns in this step: its conditional write is executed
\* (or fails in the store) and the call goes back to the caller.
UpdateReturns(w) == pc[w] = "updating" /\ pc'[w] = "fetched"

\* Writer w's Update returns successfully in this step.
UpdateSucceeds(w) == UpdateReturns(w) /\ res'[w] = UpdateOK

\* The row with the id of writer w's entity is stored at version v.
StoredAt(w, v) ==
    hook[w].ID \in DOMAIN webhooks /\ webhooks[hook[w].ID].Version = v

\* C1: N >= 2 concurrent Updates of one entity that all carry the stored
\* version V: at most one of them succeeds; as soon as the store has
\* executed the conditional write of any of them, exactly one has succeeded,
\* the stored version is V + 1 and every other executed one returned
\* Conflict. (A call the store failed to execute returns the store's error.)
Winners == {w \in Writers : res[w] = UpdateOK}

C1_ExactlyOneUpdateWins ==
    /\ Cardinality(Winners) <= 1
    /\ \A w \in Writers :
          (res[w].op = "Update" /\ res[w].err # ErrStore) =>
              /\ Winners # {}
              /\ w \notin Winners => res[w] = UpdateConflict
    /\ \A w \in Writers \ Winners :
          webhooks[1].Version =
              hook[w].Version + (IF Winners # {} THEN 1 ELSE 0)

\* Every writer's call has returned: one won, all the others got Conflict.
C1_Witness ==
    /\ Cardinality(Winners) = 1
    /\ \A w \in Writers \ Winners : res[w] = UpdateConflict /\ pc[w] = "fetched"

\* C2: no lost write: a successful Update overwrites exactly the stored
\* state (the whole row: version, timestamp, payload) that its caller last
\* observed, never a state written by another writer in between.
C2_NoLostWrite ==
    [][\A w \in Writers :
          UpdateSucceeds(w) =>
              /\ hook[w].ID \in DOMAIN webhooks
              /\ webhooks[hook[w].ID] = seen[w]]_vars

\* Two writers fetched the same state and changed it differently; one write
\* went in, the other was refused and the stored payload is the winner's.
C2_Witness ==
    \E w1, w2 \in Writers :
        /\ res[w1] = UpdateOK
        /\ res[w2] = UpdateConflict
        /\ hook[w1].ID = hook[w2].ID
        /\ hook[w1].URL # hook[w2].URL
        /\ hook[w1].ID \in DOMAIN webhooks
        /\ webhooks[hook[w1].ID].URL = hook[w1].URL

\* C3: the stored version of an entity only ever stays or grows by exactly
\* 1; a successful Update grows it by exactly 1, an Update that fails leaves
\* it; the Updated time a successful Update writes is >= the one the
\* previous successful Update of the entity wrote.
C3_VersionMonotone ==
    [][/\ \A id \in DOMAIN webhooks \cap DOMAIN webhooks' :
             /\ webhooks'[id].Version \in
                    {webhooks[id].Version, webhooks[id].Version + 1}
             /\ (/\ webhooks'[id].Version = webhooks[id].Version + 1
                 /\ webhooks[id].Version > InitialVersion)
                    => webhooks'[id].Updated >= webhooks[id].Updated
       /\ \A w \in Writers :
             UpdateReturns(w) =>
                IF res'[w] = UpdateOK
                THEN /\ hook[w].ID \in DOMAIN webhooks
                     /\ webhooks'[hook[w].ID].Version =
                            webhooks[hook[w].ID].Version + 1
                ELSE webhooks' = webhooks]_vars

\* An entity was updated twice, the second time at a later time.
C3_Witness ==
    \E id \in DOMAIN webhooks :
        /\ webhooks[id].Version = InitialVersion + 2
        /\ webhooks[id].Updated > webhooks[id].Created

\* C4: an Update carrying version callerVersion that the store executes
\* succeeds iff a row with the entity's id is stored at callerVersion; on
\* success the stored version becomes callerVersion + 1 and the caller's
\* entity gets the stored version and Updated time; otherwise the call
\* returns Conflict.
C4_UpdateContract ==
    [][\A w \in Writers :
          (UpdateReturns(w) /\ res'[w].err # ErrStore) =>
              IF StoredAt(w, hook[w].Version)
              THEN /\ res'[w] = UpdateOK
                   /\ webhooks'[hook[w].ID].Version = hook[w].Version + 1
                   /\ hook'[w].Version = webhooks'[hook[w].ID].Version
                   /\ hook'[w].Updated = webhooks'[hook[w].ID].Updated
              ELSE res'[w] = UpdateConflict]_vars

\* A writer's Update succeeded at a time later than the one it fetched, and
\* its entity carries what is stored.
C4_Witness ==
    \E w \in Writers :
        /\ res[w] = UpdateOK
        /\ hook[w].ID \in DOMAIN webhooks
        /\ hook[w].Version = webhooks[hook[w].ID].Version
        /\ hook[w].Updated = webhooks[hook[w].ID].Updated
        /\ hook[w].Updated > hook[w].Created

\* C5 as stated: an Update is accepted only if the stored version equals
\* the version supplied by the caller minus 1.
C5_AsStated ==
    [][\A w \in Writers :
          UpdateSucceeds(w) => StoredAt(w, hook[w].Version - 1)]_vars

\* C5 (amended): an Update is accepted only if, at the instant of the write,
\* the stored version equals the version supplied by the caller, which is
\* the new version the statement writes minus 1.
C5_AcceptedOnlyAtCallerVersion ==
    [][\A w \in Writers :
          UpdateSucceeds(w) =>
              /\ StoredAt(w, hook[w].Version)
              /\ webhooks[hook[w].ID].Version = dbHook[w].Version - 1]_vars

\* One writer's Update was accepted while another, whose entity carries the
\* version before, was refused.
C5_Witness ==
    \E w1, w2 \in Writers :
        /\ res[w1] = UpdateOK
        /\ res[w2] = UpdateConflict
        /\ hook[w1].ID = hook[w2].ID
        /\ hook[w2].Version = hook[w1].Version - 1

\* The request resolved its repository and its session has no view
\* permission on it.
LacksView ==
    /\ calls # <<>>
    /\ calls[1].err = NoError
    /\ ~HasRepoView(req.session, repo)

\* C6: when the session lacks view permission on the resolved repository,
\* MergeCheck returns the authorization error, and the request never parses
\* the diff path, never assembles write parameters and never calls Merge.
C6_AuthShortCircuit ==
    LacksView =>
        /\ \A i \in DOMAIN calls :
              calls[i].fn \notin {"parseDiffPath", "CreateRPCWriteParams", "Merge"}
        /\ info = NoInfo
        /\ writeParams = NoWriteParams
        /\ mpc = "done" => mret.err \in {"Forbidden", "NotAuthenticated"}

\* A request of a session without view permission has returned Forbidden.
C6_Witness ==
    /\ LacksView
    /\ mpc = "done"
    /\ mret.err = "Forbidden"
    /\ Len(calls) = 2

\* C7: a clean merge is reported as mergeable with no error, a merge the
\* backend reports as a content conflict as {mergeable: false} with no
\* error, and only another failure of the merge call as an error. (A nil
\* return that carries no {mergeable: false} is read as mergeable.)
C7_MergeOutcomeMapping ==
    (mpc = "done" /\ Len(calls) = 5) =>
        LET e == calls[5].err
        IN  /\ e = NoError =>
                 /\ mret.err = NoError
                 /\ mret.body # <<[Mergeable |-> FALSE]>>
            /\ e = "Conflict" =>
                 /\ mret.err = NoError
                 /\ mret.body = <<[Mergeable |-> FALSE]>>
            /\ e \notin {NoError, "Conflict"} => mret.err # NoError

\* C8: every merge request MergeCheck issues names as head repository the
\* repository of the write parameters assembled for the request.
C8_HeadRepoIsBaseRepo ==
    \A i \in DOMAIN calls :
        calls[i].fn = "Merge" =>
            /\ calls[i].arg.WriteParams = writeParams
            /\ calls[i].arg.HeadRepoUID = calls[i].arg.WriteParams.RepoUID

\* A merge request was issued for the second repository.
C8_Witness ==
    /\ Len(calls) = 5
    /\ calls[5].fn = "Merge"
    /\ calls[5].arg.HeadRepoUID = "uid-2"
    /\ calls[5].arg.HeadBranch = "feature"

\* C9: the collaborators are called in the order Resolve, Authorize, Parse,
\* Assemble, Execute; a step is attempted only after every earlier one
\* succeeded; the first failure ends the request with an error; a request
\* returns nil only after all five steps succeeded.
StepOrder ==
    <<"FindByRef", "CheckRepo", "parseDiffPath", "CreateRPCWriteParams", "Merge">>

C9_FixedOrderTerminalOnFailure ==
    /\ Len(calls) <= Len(StepOrder)
    /\ \A i \in DOMAIN calls : calls[i].fn = StepOrder[i]
    /\ \A i \in 1..(Len(calls) - 1) : calls[i].err = NoError
    /\ (calls # <<>> /\ calls[Len(calls)].err # NoError) =>
          (mpc = "done" /\ mret.err # NoError)
    /\ mpc = "done" =>
          (mret.err = NoError <=>
              (Len(calls) = Len(StepOrder) /\ calls[Len(calls)].err = NoError))

\* A request ended at the Parse step with its error.
C9_Witness ==
    /\ mpc = "done"
    /\ Len(calls) = 3
    /\ calls[3].err = "MalformedRequest"
    /\ mret.err = "MalformedRequest"

\* A trigger name of the enum: not empty, without the separator.
ValidTrigger(name) ==
    name # <<>> /\ \A i \in 1..Len(name) : name[i] # triggersSeparator

\* C10: for every sequence of trigger names (non-empty names without the
\* separator, as the enum defines them), the empty sequence included,
\* triggersFromString(triggersToString(s)) is s.
C10_TriggerRoundTrip ==
    (tpc = "decoded" /\ \A i \in 1..Len(tin) : ValidTrigger(tin[i])) =>
        tdec = tin

\* A list of two different names went through the encoding and came back.
C10_Witness ==
    /\ tpc = "decoded"
    /\ Len(tin) = 2
    /\ ValidTrigger(tin[1])
    /\ ValidTrigger(tin[2])
    /\ tin[1] # tin[2]
    /\ Len(tenc) = 4
    /\ tdec = tin


(***************************************************************************)
(* Create                                                                  *)
(***************************************************************************)
\* A step in which a Create call returned.
CreateReturns == ret' # ret /\ ret'.op = "Create"

HasOneParent(h) == h.ParentType \in {WebhookParentRepo, WebhookParentSpace}

EntitiesOf(tbl, parentType, parentID) ==
    { mapToWebhook(tbl[id]).hook : id \in
        { i \in DOMAIN tbl : /\ mapToWebhook(tbl[i]).err = NoError
                             /\ mapToWebhook(tbl[i]).hook.ParentType = parentType
                             /\ mapToWebhook(tbl[i]).hook.ParentID = parentID } }

\* C13: the pages of a listing hold only entities of the parent asked for,
\* in strictly ascending id order across pages (no duplicates); every page
\* before the last is full; and a finished listing has returned every
\* entity of that parent (no gaps), the last page being the one after
\* Len \div size full ones.
C13_ListPagination ==
    (lpc \in {"paging", "done"}) =>
        /\ \A i \in 1..Len(lacc) :
              /\ lacc[i].ParentType = larg.parentType
              /\ lacc[i].ParentID = larg.parentID
              /\ lacc[i] \in EntitiesOf(webhooks, larg.parentType, larg.parentID)
        /\ \A i, j \in 1..Len(lacc) : i < j => lacc[i].ID < lacc[j].ID
        /\ lpc = "paging" => Len(lacc) = (lpage - 1) * larg.size
        /\ lpc = "done" =>
              /\ \A e \in EntitiesOf(webhooks, larg.parentType, larg.parentID) :
                    \E i \in 1..Len(lacc) : lacc[i] = e
              /\ lpage = Len(lacc) \div larg.size + 1
              /\ lret.hooks = SubSeq(lacc, (lpage - 1) * larg.size + 1, Len(lacc))

\* E1..E5 of one parent listed two a page: [E1,E2], [E3,E4], [E5].
C13_Witness ==
    /\ lpc = "done"
    /\ larg.size = 2
    /\ lpage = 3
    /\ Len(lacc) = 5
    /\ \A i \in 1..5 : lacc[i].ID = i
    /\ Len(lret.hooks) = 1 /\ lret.hooks[1].ID = 5

\* C15: a List or Count for a parent type other than repo and space
\* returns the unsupported-parent error and no result, sends no query, and
\* leaves the store as it was.
C15_UnsupportedParentNoQuery ==
    [][(lret' # lret /\ lret'.op \in {"List", "Count"}
          /\ lret'.parentType \notin {WebhookParentRepo, WebhookParentSpace}) =>
          /\ lret'.err = ErrUnsupportedParent
          /\ lret'.queries = 0
          /\ lret'.hooks = <<>> /\ lret'.count = 0
          /\ UNCHANGED storeVars]_vars

C15_Witness ==
    /\ lret.op = "Count"
    /\ lret.parentType = "other"
    /\ lret.err = ErrUnsupportedParent
    /\ webhooks # <<>>

\* A stored row with both parent columns set, or with neither.
Corrupt(row) == row.RepoID.Valid = row.SpaceID.Valid

\* The ids of the rows the page of a listing selects: the matching rows
\* whose rank by ascending id falls into the page.
PageIDs(tbl, parentType, parentID, page, size) ==
    LET M == {id \in DOMAIN tbl : ParentMatches(tbl[id], parentType, parentID)}
        rank(id) == Cardinality({j \in M : j <= id})
    IN  {id \in M : rank(id) > (page - 1) * size /\ rank(id) <= page * size}

\* The page the last List call of the listing asked for.
LastPage == IF lpc = "paging" THEN lpage - 1 ELSE lpage

\* C17: a corrupt row is never read successfully. Find returns an error
\* and no entity for it, so no caller holds an entity read from it; a List
\* whose page selects a corrupt row fails as a whole, returning an error
\* and no entity, and a List fails that way only then.
C17_CorruptRowsRejected ==
    /\ \A id \in DOMAIN webhooks :
          Corrupt(webhooks[id]) =>
              FindResult(webhooks, id) = [err |-> ErrCorrupt, hook |-> NoHook]
    /\ \A w \in Writers :
          res[w] = [op |-> "Find", err |-> NoError] => ~Corrupt(seen[w])
    /\ (lret.op = "List" /\ ParentSupported(lret.parentType)) =>
          /\ (\E id \in PageIDs(webhooks, larg.parentType, larg.parentID,
                                 LastPage, larg.size) : Corrupt(webhooks[id]))
                <=> lret.err = ErrCorrupt
          /\ lret.err # NoError => (lret.hooks = <<>> /\ lpc = "failed")

C17_Witness ==
    /\ lpc = "failed"
    /\ lret.err = ErrCorrupt
    /\ \E id \in PageIDs(webhooks, larg.parentType, larg.parentID,
                          LastPage, larg.size) : ~Corrupt(webhooks[id])
    /\ \E w \in Writers : res[w] = [op |-> "Find", err |-> ErrCorrupt]
    /\ \E id \in DOMAIN webhooks :
          ~webhooks[id].RepoID.Valid /\ ~webhooks[id].SpaceID.Valid

(***************************************************************************)
(* Delete                                                                  *)
(***************************************************************************)
\* C14: Delete looks at no version. Every Delete call succeeds and leaves
\* no row of that id, whatever version the row was stored at, and the
\* other rows as they were; from then on Find of that id returns NotFound.
C14_DeleteUnconditional ==
    /\ [][(ret' # ret /\ ret'.op = "Delete") =>
             /\ ret'.err = NoError
             /\ ret'.id \notin DOMAIN webhooks'
             /\ \A id \in DOMAIN webhooks \ {ret'.id} :
                   id \in DOMAIN webhooks' /\ webhooks'[id] = webhooks[id]]_vars
    /\ [](ret.op = "Delete" =>
             FindResult(webhooks, ret.id) = [err |-> ErrNotFound, hook |-> NoHook])

\* The deleted row had been read at the initial version by one writer and
\* moved on by another writer's Update before the Delete.
C14_Witness ==
    /\ ret.op = "Delete" /\ ret.err = NoError
    /\ ret.id \notin DOMAIN webhooks
    /\ \E w1, w2 \in Writers :
          /\ w1 # w2
          /\ res[w1] = [op |-> "Find", err |-> NoError]
          /\ seen[w1].ID = ret.id /\ seen[w1].Version = InitialVersion
          /\ res[w2] = UpdateOK
          /\ hook[w2].ID = ret.id /\ hook[w2].Version > InitialVersion

\* C19: an Update of an entity whose row is gone returns Conflict (unless
\* the store fails) and writes nothing, and an id that was handed out and
\* is no longer stored is never stored again.
C19_NoResurrection ==
    /\ [][\A w \in Writers :
             (UpdateReturns(w) /\ hook[w].ID \notin DOMAIN webhooks
                 /\ res'[w].err # ErrStore) =>
                /\ res'[w] = UpdateConflict
                /\ webhooks' = webhooks
                /\ hook'[w] = hook[w]]_vars
    /\ [][\A id \in 1..(nextID - 1) :
             id \notin DOMAIN webhooks => id \notin DOMAIN webhooks']_vars

\* The only writer that ever called the store fetched the entity, the row
\* was deleted, and its Update returned Conflict.
C19_Witness ==
    \E w \in Writers :
        /\ res[w] = UpdateConflict
        /\ hook[w].ID # 0 /\ hook[w].ID \notin DOMAIN webhooks
        /\ ret.op = "Delete" /\ ret.id = hook[w].ID
        /\ \A v \in Writers \ {w} : res[v] = NoCall

Identity(row) ==
    [ID |-> row.ID, RepoID |-> row.RepoID, SpaceID |-> row.SpaceID,
     CreatedBy |-> row.CreatedBy, Created |-> row.Created]

\* C16: every stored row has exactly one parent column set and is stored
\* under its own id, and as long as a row is stored its id, parent columns,
\* creator and creation time stay what they were, whatever the entity
\* passed to Update carries in those fields.
C16_IdentityImmutable ==
    /\ [](\A id \in DOMAIN webhooks :
             webhooks[id].ID = id /\ ~Corrupt(webhooks[id]))
    /\ [][\A id \in DOMAIN webhooks \cap DOMAIN webhooks' :
             Identity(webhooks'[id]) = Identity(webhooks[id])]_vars

\* A successful Update of an entity whose parent, creator and creation time
\* differ from the stored ones.
C16_Witness ==
    \E w \in Writers :
        /\ res[w] = UpdateOK
        /\ hook[w].ID \in DOMAIN webhooks
        /\ webhooks[hook[w].ID].Version = hook[w].Version
        /\ webhooks[hook[w].ID].RepoID = IntFrom(1)
        /\ hook[w].ParentType = WebhookParentSpace /\ hook[w].ParentID = 2
        /\ hook[w].CreatedBy # webhooks[hook[w].ID].CreatedBy
        /\ hook[w].Created # webhooks[hook[w].ID].Created

(***************************************************************************)
(* Termination of the retry loop                                           *)
(***************************************************************************)
AllUpdated == \A w \in Writers : res[w] = UpdateOK

\* C20: with every writer retrying on Conflict, the update of every writer
\* eventually succeeds; an Update returns Conflict only when another
\* writer's Update has succeeded since the caller's last fetch; and once
\* all have succeeded the stored version is the initial version plus the
\* number of writers.
C20_RetryTerminates ==
    /\ <>[]AllUpdated
    /\ [][\A w \in Writers :
             (UpdateReturns(w) /\ res'[w] = UpdateConflict) =>
                /\ webhooks[1].Version > seen[w].Version
                /\ \E v \in Writers \ {w} :
                      res[v] = UpdateOK /\ hook[v].Version > seen[w].Version]_vars
    /\ [](AllUpdated => webhooks[1].Version = InitialVersion + NumWriters)

C20_Witness ==
    /\ AllUpdated
    /\ webhooks[1].Version = InitialVersion + NumWriters
    /\ \A w \in Writers : pc[w] = "fetched" /\ seen[w].Version = hook[w].Version
    /\ \E w \in Writers : hook[w].Version = webhooks[1].Version
=============================================================================
